---- MODULE Spec2Model ----
(***************************************************************************)
(* Health-Risk-API: the risk calculator (app/services/risk_calculator.py), *)
(* the record store (app/models.py), the Google Sheets client              *)
(* (app/services/google_sheets.py), the synchronisation service            *)
(* (app/services/sync_service.py) and the HTTP handlers (app/main.py).     *)
(*                                                                         *)
(* Numbers are exact and scaled: a sub-score is in hundredths (0.3 is 30), *)
(* a weight is in hundredths (0.25 is 25), a risk score is in              *)
(* ten-thousandths (0.185 is 1850).  A height is in tenths of a centimetre *)
(* (180.5 cm is 1805) and a weight in tenths of a kilogram (75 kg is 750). *)
(***************************************************************************)
EXTENDS Integers, Sequences, FiniteSets, TLC

VARIABLES
    calcIn,     \* the dict handed to the risk calculator
    calcOut,    \* the scores computed so far for calcIn
    users,      \* table user_data, in insertion order
    activities, \* table health_activities
    logs,       \* table risk_assessment_logs (the SyncRun rows), id = index
    sheet,      \* the spreadsheet: range name -> rows held in that range
    runs,       \* the synchronisation invocations started so far
    now,        \* the clock read by datetime.utcnow()
    response    \* the answer of the HTTP handler that acted last, where it is recorded

calcVars == <<calcIn, calcOut>>
sysVars == <<users, activities, logs, sheet, runs, now, response>>
vars == <<calcIn, calcOut, users, activities, logs, sheet, runs, now, response>>

(***************************************************************************)
(* Python values.                                                          *)
(***************************************************************************)
PyNone == [t |-> "None"]
PyNum(n) == [t |-> "num", v |-> n]
PyStr(s) == [t |-> "str", v |-> s]
PyBool(b) == [t |-> "bool", v |-> b]
PyList(q) == [t |-> "list", v |-> q]
PyDict(f) == [t |-> "dict", v |-> f]

EmptyDict == PyDict(<<>>)

\* dict.get(key, default)
Get(d, key, default) == IF key \in DOMAIN d.v THEN d.v[key] ELSE default

\* x.get(...) raises AttributeError unless x is a dict
GetRaises(x) == x.t # "dict"

\* bool(x): None, "", 0, [] and {} are falsy
Truthy(x) ==
    CASE x.t = "None" -> FALSE
      [] x.t = "str" -> x.v # ""
      [] x.t = "num" -> x.v # 0
      [] x.t = "bool" -> x.v
      [] x.t = "list" -> Len(x.v) > 0
      [] x.t = "dict" -> DOMAIN x.v # {}

\* str.lower() on the strings the model uses
Lower(s) ==
    CASE s = "Never" -> "never"
      [] s = "NEVER" -> "never"
      [] s = "Daily" -> "daily"
      [] s = "Healthy" -> "healthy"
      [] s = "Current" -> "current"
      [] s = "Heart Disease" -> "heart disease"
      [] s = " Heart Disease " -> " heart disease "
      [] s = "Diabetes" -> "diabetes"
      [] s = "Name" -> "name"
      [] s = "Email" -> "email"
      [] s = "Age" -> "age"
      [] s = "Is Active" -> "is active"
      [] s = "Height (cm)" -> "height (cm)"
      [] s = "Weight (kg)" -> "weight (kg)"
      [] s = "Insurance Risk Score" -> "insurance risk score"
      [] s = "Diabetes Risk Score" -> "diabetes risk score"
      [] s = "Medical History" -> "medical history"
      [] s = "Lifestyle Factors" -> "lifestyle factors"
      [] s = "True" -> "true"
      [] s = "Alice" -> "alice"
      [] s = "Bob" -> "bob"
      [] OTHER -> s

\* str.strip() on the strings the model uses
Strip(s) ==
    CASE s = " heart disease " -> "heart disease"
      [] s = " Heart Disease " -> "Heart Disease"
      [] s = " diabetes" -> "diabetes"
      [] s = " name " -> "name"
      [] OTHER -> s

\* the numeric strings the model can parse
NumStrings == [s \in {"0", "30", "40", "1805", "750", "1700"} |->
    CASE s = "0" -> 0 [] s = "30" -> 30 [] s = "40" -> 40
      [] s = "1805" -> 1805 [] s = "750" -> 750 [] s = "1700" -> 1700]

\* float(x) and int(x) raise on None, on a list or dict, and on a non-numeric string
NumRaises(x) ==
    CASE x.t = "num" -> FALSE
      [] x.t = "bool" -> FALSE
      [] x.t = "str" -> x.v \notin DOMAIN NumStrings
      [] OTHER -> TRUE

ToNum(x) ==
    CASE x.t = "num" -> x.v
      [] x.t = "bool" -> IF x.v THEN 1 ELSE 0
      [] x.t = "str" -> NumStrings[x.v]

(***************************************************************************)
(* RiskCalculator                                                          *)
(***************************************************************************)
INSURANCE_WEIGHTS ==
    [age |-> 20, bmi |-> 15, smoking |-> 25, exercise |-> 15, medical_history |-> 25]

DIABETES_WEIGHTS ==
    [age |-> 15, bmi |-> 20, family_history |-> 25, exercise |-> 20, diet |-> 20]

_calculate_age_risk_shifted(age, diabetes_context) ==
    IF diabetes_context
    THEN IF age > 65 THEN 100 ELSE IF age > 45 THEN 70 ELSE IF age > 35 THEN 40 ELSE 20
    ELSE IF age > 70 THEN 100 ELSE IF age > 50 THEN 70 ELSE IF age >= 30 THEN 40 ELSE 20

_calculate_age_risk(age, diabetes_context) ==
    IF diabetes_context
    THEN IF age > 65 THEN 100 ELSE IF age > 45 THEN 70 ELSE IF age > 35 THEN 40 ELSE 20
    ELSE IF age > 70 THEN 100 ELSE IF age > 50 THEN 70 ELSE IF age > 30 THEN 40 ELSE 20

\* height (0.1 cm) and weight (0.1 kg): bmi = weight_kg / height_m^2
\*   = (weight / 10) / (height / 1000)^2 = weight * 100000 / height^2
_calculate_bmi_risk(height, weight) ==
    IF height <= 0 THEN 50
    ELSE IF weight * 100000 > 35 * height * height THEN 100
    ELSE IF weight * 100000 > 30 * height * height THEN 80
    ELSE IF weight * 100000 > 25 * height * height THEN 60
    ELSE IF weight * 200000 < 37 * height * height THEN 40
    ELSE 20

\* a category lookup: status_map.get(x.lower(), 0.5), 0.5 when x is falsy
CategoryRaises(x) == Truthy(x) /\ x.t # "str"

CategoryRisk(x, map) ==
    IF ~Truthy(x) THEN 50
    ELSE IF Lower(x.v) \in DOMAIN map THEN map[Lower(x.v)] ELSE 50

_calculate_smoking_risk(smoking_status) ==
    CategoryRisk(smoking_status, [current |-> 100, former |-> 60, never |-> 10])

_calculate_exercise_risk(exercise_frequency) ==
    CategoryRisk(exercise_frequency,
        [never |-> 100, rarely |-> 80, sometimes |-> 60, regularly |-> 30, daily |-> 10])

_calculate_diet_risk(diet_type) ==
    CategoryRisk(diet_type,
        [unhealthy |-> 100, average |-> 50, healthy |-> 20, very_healthy |-> 10])

Min(a, b) == IF a < b THEN a ELSE b
Max(a, b) == IF a > b THEN a ELSE b

\* for condition in conditions: raises unless conditions is a list of strings
ConditionsRaise(conditions) ==
    \/ conditions.t # "list"
    \/ \E i \in 1..Len(conditions.v) : conditions.v[i].t # "str"

RECURSIVE MedicalSum(_)
MedicalSum(q) ==
    IF q = <<>> THEN 0
    ELSE LET condition == Strip(Lower(Head(q).v))
         IN  (IF condition \in {"heart disease", "diabetes", "cancer"} THEN 30
              ELSE IF condition \in {"hypertension", "high cholesterol"} THEN 15
              ELSE 0) + MedicalSum(Tail(q))

_calculate_medical_risk_raises(medical_history) ==
    \/ GetRaises(medical_history)
    \/ ConditionsRaise(Get(medical_history, "conditions", PyList(<<>>)))

\* every condition name counted once however often it is listed
_calculate_medical_risk_once(medical_history) ==
    LET conditions == Get(medical_history, "conditions", PyList(<<>>)).v
        cs == {Strip(Lower(conditions[i].v)) : i \in 1..Len(conditions)}
    IN  Min(30 + 30 * Cardinality(cs \cap {"heart disease", "diabetes", "cancer"})
               + 15 * Cardinality(cs \cap {"hypertension", "high cholesterol"}), 100)

_calculate_medical_risk(medical_history) ==
    Min(30 + MedicalSum(Get(medical_history, "conditions", PyList(<<>>)).v), 100)

_calculate_family_risk(conditions) ==
    LET cs == {Strip(Lower(conditions.v[i].v)) : i \in 1..Len(conditions.v)}
    IN  Min(20 + (IF "diabetes" \in cs THEN 40 ELSE 0)
               + (IF "heart disease" \in cs THEN 20 ELSE 0), 100)

\* return 0.5  # Default risk score
DefaultRiskScoreNegative == 0 - 10000

DefaultRiskScore == 5000

\* min(max(risk_score, 0), 1)
Normalize(risk_score) == Min(Max(risk_score, 0), 10000)

calculate_insurance_risk_raises(user_data) ==
    \/ NumRaises(Get(user_data, "age", PyNum(0)))
    \/ NumRaises(Get(user_data, "height", PyNum(0)))
    \/ NumRaises(Get(user_data, "weight", PyNum(0)))
    \/ GetRaises(Get(user_data, "lifestyle_factors", EmptyDict))
    \/ LET lifestyle == Get(user_data, "lifestyle_factors", EmptyDict)
       IN  \/ CategoryRaises(Get(lifestyle, "smoking_status", PyNone))
           \/ CategoryRaises(Get(lifestyle, "exercise_frequency", PyNone))
    \/ _calculate_medical_risk_raises(Get(user_data, "medical_history", EmptyDict))

calculate_insurance_risk(user_data) ==
    IF calculate_insurance_risk_raises(user_data) THEN DefaultRiskScore
    ELSE
    LET age == ToNum(Get(user_data, "age", PyNum(0)))
        age_risk == _calculate_age_risk(age, FALSE)
        height == ToNum(Get(user_data, "height", PyNum(0)))
        weight == ToNum(Get(user_data, "weight", PyNum(0)))
        bmi_risk == _calculate_bmi_risk(height, weight)
        lifestyle == Get(user_data, "lifestyle_factors", EmptyDict)
        smoking_risk == _calculate_smoking_risk(Get(lifestyle, "smoking_status", PyNone))
        exercise_risk ==
            _calculate_exercise_risk(Get(lifestyle, "exercise_frequency", PyNone))
        medical_risk ==
            _calculate_medical_risk(Get(user_data, "medical_history", EmptyDict))
    IN  Normalize(age_risk * INSURANCE_WEIGHTS.age
                  + bmi_risk * INSURANCE_WEIGHTS.bmi
                  + smoking_risk * INSURANCE_WEIGHTS.smoking
                  + exercise_risk * INSURANCE_WEIGHTS.exercise
                  + medical_risk * INSURANCE_WEIGHTS.medical_history)

calculate_diabetes_risk_raises(user_data) ==
    \/ NumRaises(Get(user_data, "age", PyNum(0)))
    \/ NumRaises(Get(user_data, "height", PyNum(0)))
    \/ NumRaises(Get(user_data, "weight", PyNum(0)))
    \/ GetRaises(Get(user_data, "lifestyle_factors", EmptyDict))
    \/ LET lifestyle == Get(user_data, "lifestyle_factors", EmptyDict)
       IN  \/ CategoryRaises(Get(lifestyle, "exercise_frequency", PyNone))
           \/ CategoryRaises(Get(lifestyle, "diet_type", PyNone))
    \/ GetRaises(Get(user_data, "medical_history", EmptyDict))
    \/ ConditionsRaise(Get(Get(user_data, "medical_history", EmptyDict),
                           "conditions", PyList(<<>>)))

calculate_diabetes_risk_following_insurance(user_data) ==
    IF calculate_diabetes_risk_raises(user_data) \/ calculate_insurance_risk_raises(user_data)
    THEN DefaultRiskScore
    ELSE
    LET age_risk == _calculate_age_risk(ToNum(Get(user_data, "age", PyNum(0))), TRUE)
        bmi_risk == _calculate_bmi_risk(ToNum(Get(user_data, "height", PyNum(0))),
                                        ToNum(Get(user_data, "weight", PyNum(0))))
        lifestyle == Get(user_data, "lifestyle_factors", EmptyDict)
        medical == Get(user_data, "medical_history", EmptyDict)
    IN  Normalize(age_risk * DIABETES_WEIGHTS.age + bmi_risk * DIABETES_WEIGHTS.bmi
                  + _calculate_family_risk(Get(medical, "conditions", PyList(<<>>)))
                        * DIABETES_WEIGHTS.family_history
                  + _calculate_exercise_risk(Get(lifestyle, "exercise_frequency", PyNone))
                        * DIABETES_WEIGHTS.exercise
                  + _calculate_diet_risk(Get(lifestyle, "diet_type", PyNone))
                        * DIABETES_WEIGHTS.diet)

calculate_diabetes_risk(user_data) ==
    IF calculate_diabetes_risk_raises(user_data) THEN DefaultRiskScore
    ELSE
    LET age == ToNum(Get(user_data, "age", PyNum(0)))
        age_risk == _calculate_age_risk(age, TRUE)
        height == ToNum(Get(user_data, "height", PyNum(0)))
        weight == ToNum(Get(user_data, "weight", PyNum(0)))
        bmi_risk == _calculate_bmi_risk(height, weight)
        lifestyle == Get(user_data, "lifestyle_factors", EmptyDict)
        exercise_risk ==
            _calculate_exercise_risk(Get(lifestyle, "exercise_frequency", PyNone))
        diet_risk == _calculate_diet_risk(Get(lifestyle, "diet_type", PyNone))
        medical == Get(user_data, "medical_history", EmptyDict)
        family_risk == _calculate_family_risk(Get(medical, "conditions", PyList(<<>>)))
    IN  Normalize(age_risk * DIABETES_WEIGHTS.age
                  + bmi_risk * DIABETES_WEIGHTS.bmi
                  + family_risk * DIABETES_WEIGHTS.family_history
                  + exercise_risk * DIABETES_WEIGHTS.exercise
                  + diet_risk * DIABETES_WEIGHTS.diet)

(***************************************************************************)
(* The calculator on its own: an input dict is drawn, then each score is   *)
(* computed from it.                                                       *)
(***************************************************************************)
Absent == [t |-> "absent"]

\* a dict holding the given keys; a key whose value is Absent is left out
MkDict(f) == PyDict([key \in {x \in DOMAIN f : f[x] # Absent} |-> f[key]])

CalcAges == {Absent, PyNone, PyNum(0 - 1), PyNum(30), PyNum(31), PyNum(36), PyNum(46),
             PyNum(51), PyNum(66), PyNum(71)}
CalcHeights == {Absent, PyNone, PyNum(0), PyNum(0 - 1700), PyNum(1805), PyNum(1700),
                PyNum(2000)}
CalcWeights == {Absent, PyNone, PyNum(0 - 10), PyNum(500), PyNum(750), PyNum(1000),
                PyNum(1200)}
CalcLifestyles ==
    {Absent, PyNone, PyStr(""),
     MkDict([smoking_status |-> PyStr("never"), exercise_frequency |-> PyStr("daily"),
             diet_type |-> PyStr("healthy")]),
     MkDict([smoking_status |-> PyStr("Current"), exercise_frequency |-> PyStr("NEVER"),
             diet_type |-> PyStr("unhealthy")]),
     MkDict([smoking_status |-> PyStr("former"), exercise_frequency |-> PyStr("jogging"),
             diet_type |-> PyNone]),
     MkDict([smoking_status |-> PyStr(""), exercise_frequency |-> PyStr("regularly"),
             diet_type |-> PyStr("very_healthy")]),
     MkDict([exercise |-> PyStr("daily"), diet |-> PyStr("healthy")]),
     MkDict([smoking_status |-> PyNum(1), exercise_frequency |-> PyStr("daily"),
             diet_type |-> PyStr("healthy")]),
     MkDict([smoking_status |-> PyStr("never"), exercise_frequency |-> PyStr("daily"),
             diet_type |-> PyNum(2)])}
CalcMedicals ==
    {Absent, PyNone, PyStr(""),
     MkDict([conditions |-> PyList(<<PyStr("none")>>)]),
     MkDict([conditions |-> PyList(<<PyStr(" Heart Disease "), PyStr("Heart Disease")>>)]),
     MkDict([conditions |-> PyList(<<PyStr("Diabetes"), PyStr("hypertension")>>)]),
     MkDict([conditions |-> PyList(<<PyStr(" diabetes"), PyStr("Diabetes")>>)]),
     MkDict([conditions |-> PyList(<<PyStr("cancer"), PyStr("diabetes"),
                                     PyStr("heart disease"), PyStr("high cholesterol")>>)]),
     MkDict([medications |-> PyList(<<>>)])}

CalcInputs ==
    {MkDict([age |-> a, height |-> h, weight |-> w, lifestyle_factors |-> l,
             medical_history |-> m]) :
        a \in CalcAges, h \in CalcHeights, w \in CalcWeights, l \in CalcLifestyles,
        m \in CalcMedicals}

NoScores == [insurance |-> <<>>, diabetes |-> <<>>]

CalcInsurance ==
    /\ calcOut.insurance = <<>>
    /\ calcOut' = [calcOut EXCEPT !.insurance = <<calculate_insurance_risk(calcIn)>>]
    /\ UNCHANGED <<calcIn, sysVars>>

CalcDiabetes ==
    /\ calcOut.diabetes = <<>>
    /\ calcOut' = [calcOut EXCEPT !.diabetes = <<calculate_diabetes_risk(calcIn)>>]
    /\ UNCHANGED <<calcIn, sysVars>>

\* no HTTP handler has just answered
NoResponse == [code |-> 0]

RangeOrder == <<"user_data", "health_activities", "risk_assessment_logs">>

SysIdle ==
    /\ users = <<>>
    /\ activities = <<>>
    /\ logs = <<>>
    /\ sheet = [n \in {RangeOrder[i] : i \in 1..3} |-> <<>>]
    /\ runs = <<>>
    /\ now = 0
    /\ response = NoResponse

CalcInit ==
    /\ calcIn \in CalcInputs
    /\ calcOut = NoScores
    /\ SysIdle

CalcNext == CalcInsurance \/ CalcDiabetes

SpecCalc == CalcInit /\ [][CalcNext]_vars

(***************************************************************************)
(* The record store and the HTTP handlers for user records.                *)
(* A stored row keeps the columns name, age, email, height, weight,        *)
(* medical_history, lifestyle_factors, is_active and the two scores.       *)
(***************************************************************************)
MaxRuns == 2
MaxSheetRows == 3

\* str(x)
Str(x) ==
    CASE x.t = "str" -> x.v
      [] x.t = "None" -> "None"
      [] x.t = "bool" -> IF x.v THEN "True" ELSE "False"
      [] OTHER -> ToString(x.v)

\* MedicalHistory(conditions=[], medications=[])
MedicalHistory(x) ==
    IF x.t # "dict" THEN PyNone
    ELSE PyDict([conditions |-> Get(x, "conditions", PyList(<<>>)),
                 medications |-> Get(x, "medications", PyList(<<>>))])

\* LifestyleFactors(exercise=None, diet=None)
LifestyleFactors(x) ==
    IF x.t # "dict" THEN PyNone
    ELSE PyDict([exercise |-> Get(x, "exercise", PyNone), diet |-> Get(x, "diet", PyNone)])

\* UserDataCreate(**body).dict(): the schema's fields only, defaults filled in
UserDataCreate(body) ==
    PyDict([name |-> Get(body, "name", PyNone),
            age |-> Get(body, "age", PyNone),
            email |-> Get(body, "email", PyNone),
            height |-> Get(body, "height", PyNone),
            weight |-> Get(body, "weight", PyNone),
            medical_history |-> MedicalHistory(Get(body, "medical_history", PyNone)),
            lifestyle_factors |-> LifestyleFactors(Get(body, "lifestyle_factors", PyNone)),
            is_active |-> Get(body, "is_active", PyBool(TRUE))])

\* the request bodies the model posts
Bodies ==
    {MkDict([name |-> PyStr("Alice"), age |-> PyNum(30), email |-> PyStr("a@x.org"),
             height |-> PyNum(1805), weight |-> PyNum(750),
             medical_history |-> MkDict([conditions |-> PyList(<<PyStr("none")>>)]),
             lifestyle_factors |-> MkDict([exercise |-> PyStr("daily")]),
             insurance_risk_score |-> PyNum(9999),
             diabetes_risk_score |-> PyNum(9999)])}

\* models.UserData(**fields, insurance_risk_score=..., diabetes_risk_score=...)
UserData(fields, insurance_risk, diabetes_risk) ==
    [name |-> fields.v.name, age |-> fields.v.age, email |-> fields.v.email,
     height |-> fields.v.height, weight |-> fields.v.weight,
     medical_history |-> fields.v.medical_history,
     lifestyle_factors |-> fields.v.lifestyle_factors,
     is_active |-> fields.v.is_active,
     insurance_risk_score |-> PyNum(insurance_risk),
     diabetes_risk_score |-> PyNum(diabetes_risk)]

\* a table without the unique index
UniqueViolationNever(table, row) == FALSE

\* email = Column(String, unique=True): the insert is refused when the email is stored
UniqueViolation(table, row) == \E i \in 1..Len(table) : table[i].email = row.email

\* POST /user/: the table afterwards and the answer
create_user_data(body) ==
    LET user_data == UserDataCreate(body)
        insurance_risk == calculate_insurance_risk(user_data)
        diabetes_risk == calculate_diabetes_risk(user_data)
        db_user == UserData(user_data, insurance_risk, diabetes_risk)
    IN  IF UniqueViolation(users, db_user)
        THEN [users |-> users, response |-> [code |-> 500]]
        ELSE [users |-> Append(users, db_user),
              response |-> [code |-> 200, body |-> db_user]]

\* a delete that keeps the active rows
delete_all_users_inactive ==
    [users |-> SelectSeq(users, LAMBDA row : row.is_active = PyBool(TRUE)),
     response |-> [code |-> 204]]

\* DELETE /user/: the table afterwards and the answer
delete_all_users == [users |-> <<>>, response |-> [code |-> 204]]

(***************************************************************************)
(* GoogleSheetsClient.  sheet[name] holds the rows of the range RANGES     *)
(* names, 'name!A2:Z': the sheet from its second row on.  A gateway call   *)
(* ends "ok", with an HttpError ("http_error") or with another exception   *)
(* ("error"); authenticate() returns True ("ok") or False ("auth_failed"). *)
(***************************************************************************)
AuthFailedMessage == "Failed to authenticate with Google Sheets"
GatewayErrorMessage == "Unable to reach the Sheets API"
HttpErrorMessage == "HttpError 503"

\* the message of the exception a failed call raises
ExceptionMessage(outcome) ==
    CASE outcome = "auth_failed" -> AuthFailedMessage
      [] outcome = "http_error" -> HttpErrorMessage
      [] outcome = "error" -> GatewayErrorMessage

\* headers = [h.lower().strip() for h in values[0]]
Headers(values) == [c \in 1..Len(values[1]) |-> Strip(Lower(values[1][c]))]

\* dict(zip(headers, row + [''] * (len(headers) - len(row)))): a later duplicate wins
Entry(headers, row) ==
    PyDict([h \in {headers[c] : c \in 1..Len(headers)} |->
        LET c == CHOOSE c \in 1..Len(headers) :
                    /\ headers[c] = h
                    /\ \A d \in 1..Len(headers) : headers[d] = h => d <= c
        IN  PyStr(IF c <= Len(row) THEN row[c] ELSE "")])

\* get_sheet_data, after the values are fetched: values[0] is read as the header row
Entries(values) ==
    IF values = <<>> THEN <<>>
    ELSE [r \in 1..(Len(values) - 1) |-> Entry(Headers(values), values[r + 1])]

\* values().batchClear(ranges=[range_name])
BatchClear(sh, name) == [sh EXCEPT ![name] = <<>>]

\* values().update(range=range_name, body={'values': values}): the rows are written
\* from the first row of the range; rows below them are left as they are
Update(sh, name, values) ==
    [sh EXCEPT ![name] = values \o SubSeq(sh[name], Len(values) + 1, Len(sh[name]))]

(***************************************************************************)
(* SyncService.  A run is one invocation of sync_from_sheets,              *)
(* sync_to_sheets or sync_data; runs[r].pc is where it stands.             *)
(* Besides the function's local variables a run records, for the          *)
(* properties stated below:                                                *)
(*   calls    the gateway calls the run has made, in order, each with how  *)
(*            it ended                                                     *)
(*   added    the user rows the run has committed                          *)
(*   clean    (an export run) no other operation has acted since it started *)
(*   alone    clean, as it was when the run closed its log                 *)
(*   prev     (an export run) the export run that ended right before this  *)
(*            one started, nothing having acted in between: what it wrote  *)
(*   sheetEnd (an export run) the spreadsheet when the run closed its log  *)
(*   tz       (a sync_data run) the offset of the local time it reads       *)
(* A run that is over keeps its record until the next operation acts       *)
(* (pc = "done") and is then forgotten (pc = "retired").                   *)
(***************************************************************************)
NoData == [n \in {RangeOrder[i] : i \in 1..3} |-> <<>>]

NoPrev == [found |-> FALSE]

BlankRun(kind, pc, log) ==
    [kind |-> kind, pc |-> pc, log |-> log,
     sheet_data |-> <<>>, i |-> 1, processed |-> 0, errors |-> <<>>,
     db_data |-> NoData, k |-> 1, results |-> <<>>, exc |-> "",
     sheets_result |-> "", db_result |-> "",
     calls |-> <<>>, added |-> 0, sheetEnd |-> NoData,
     clean |-> FALSE, alone |-> FALSE, prev |-> NoPrev, tz |-> 0]

NewRun(kind, first, prev) ==
    [BlankRun(kind, first, Len(logs) + 1) EXCEPT
        !.clean = (kind = "db_to_sheets_sync"), !.prev = prev]

\* datetime.now() is the server's local time: datetime.utcnow() plus the offset of the
\* server's time zone, in hours; the zones the model places the server in
UtcOffsets == {0, 2}

\* every run but `self` has seen another operation act
Touch(rs, self) ==
    [r \in 1..Len(rs) |->
        IF r = self THEN rs[r]
        ELSE IF rs[r].pc \in {"done", "retired"}
             THEN BlankRun(rs[r].kind, "retired", rs[r].log)
             ELSE [rs[r] EXCEPT !.clean = FALSE, !.prev = NoPrev]]

\* the row opened with one tag for every operation
RiskAssessmentLogTaggedSync(assessment_type, start) ==
    [id |-> Len(logs) + 1, user_id |-> PyNone, assessment_type |-> "sync",
     timestamp |-> PyNum(now), risk_score |-> PyNone, factors |-> PyNone,
     sync_start_time |-> start, sync_end_time |-> PyNone,
     sync_status |-> "in_progress", sync_error_message |-> PyNone]

\* models.RiskAssessmentLog(assessment_type=..., sync_start_time=..., sync_status="in_progress")
RiskAssessmentLog(assessment_type, start) ==
    [id |-> Len(logs) + 1, user_id |-> PyNone, assessment_type |-> assessment_type,
     timestamp |-> PyNum(now), risk_score |-> PyNone, factors |-> PyNone,
     sync_start_time |-> start, sync_end_time |-> PyNone,
     sync_status |-> "in_progress", sync_error_message |-> PyNone]

\* sync_log.sync_end_time = ...; sync_log.sync_status = ...; sync_log.sync_error_message = ...
CloseLogLeavingOpen(r, status, message) ==
    logs' = [logs EXCEPT ![runs[r].log] =
                [@ EXCEPT !.sync_end_time = PyNum(now + runs[r].tz),
                          !.sync_error_message = message]]

CloseLog(r, status, message) ==
    logs' = [logs EXCEPT ![runs[r].log] =
                [@ EXCEPT !.sync_end_time = PyNum(now + runs[r].tz), !.sync_status = status,
                          !.sync_error_message = message]]

\* the run's log is closed: the run is over
Finish(r) ==
    runs' = [Touch(runs, r) EXCEPT ![r] =
                [@ EXCEPT !.pc = "done", !.alone = runs[r].clean,
                          !.sheetEnd = IF runs[r].kind = "db_to_sheets_sync"
                                       THEN sheet ELSE NoData]]

Step(r, new) == runs' = [Touch(runs, r) EXCEPT ![r] = new]

\* sync_from_sheets and sync_to_sheets are coroutines that never await, run on the one
\* event loop of the server process run.py starts: the loop runs one to its end before
\* it starts another.  sync_data and the handlers for user rows are plain functions,
\* run in the thread pool beside it.
LoopIdle ==
    \A r \in 1..Len(runs) :
        runs[r].kind \in {"sheets_to_db_sync", "db_to_sheets_sync"}
            => runs[r].pc \in {"done", "retired"}

At(r, kind, pc) == runs[r].kind = kind /\ runs[r].pc = pc

(***************************************************************************)
(* sync_from_sheets                                                        *)
(***************************************************************************)
\* int(float(...)) and float(...) of the entry's numeric cells, .lower() of a cell
ProcessRaises(entry) ==
    \/ NumRaises(Get(entry, "Age", PyNum(0)))
    \/ NumRaises(Get(entry, "Height (cm)", PyNum(0)))
    \/ NumRaises(Get(entry, "Weight (kg)", PyNum(0)))
    \/ Get(entry, "Is Active", PyStr("")).t # "str"

\* processed_entry = {'name': str(entry.get('Name', '')), ...}
ProcessedEntry(entry) ==
    PyDict([name |-> PyStr(Str(Get(entry, "Name", PyStr("")))),
            age |-> PyNum(ToNum(Get(entry, "Age", PyNum(0)))),
            email |-> PyStr(Str(Get(entry, "Email", PyStr("")))),
            height |-> PyNum(ToNum(Get(entry, "Height (cm)", PyNum(0)))),
            weight |-> PyNum(ToNum(Get(entry, "Weight (kg)", PyNum(0)))),
            medical_history |-> PyStr(Str(Get(entry, "Medical History", PyStr("")))),
            lifestyle_factors |-> PyStr(Str(Get(entry, "Lifestyle Factors", PyStr("")))),
            is_active |-> PyBool(Lower(Get(entry, "Is Active", PyStr("")).v) = "true")])

\* the row sync_from_sheets builds from an entry
ImportedUser(entry) ==
    LET processed_entry == ProcessedEntry(entry)
    IN  UserData(processed_entry,
                 calculate_insurance_risk(processed_entry),
                 calculate_diabetes_risk(processed_entry))

\* POST /sync/from_sheets: the log is opened
StartImport ==
    /\ Len(runs) < MaxRuns
    /\ LoopIdle
    /\ logs' = Append(logs, RiskAssessmentLog("sheets_to_db_sync", PyNum(now)))
    /\ runs' = Append(Touch(runs, 0), NewRun("sheets_to_db_sync", "fetch", NoPrev))
    /\ now' = now + 1
    /\ UNCHANGED <<users, activities, sheet, response, calcVars>>

\* sheet_data = self.sheets_client.get_sheet_data('user_data')
ImportFetch(r, outcome) ==
    /\ At(r, "sheets_to_db_sync", "fetch")
    /\ LET sheet_data == Entries(sheet["user_data"])
           made == IF outcome = "auth_failed" THEN <<<<"authenticate", outcome>>>>
                   ELSE <<<<"authenticate", "ok">>, <<"get", outcome>>>>
       IN  Step(r, IF outcome = "ok"
                   THEN [runs[r] EXCEPT !.calls = @ \o made, !.sheet_data = sheet_data,
                             !.pc = IF sheet_data = <<>> THEN "close_empty" ELSE "rows"]
                   ELSE [runs[r] EXCEPT !.calls = @ \o made,
                             !.exc = ExceptionMessage(outcome), !.pc = "close_failure"])
    /\ UNCHANGED <<users, activities, logs, sheet, now, response, calcVars>>

\* one turn of `for entry in sheet_data`; commit_ok: the store accepts the commit
ImportRowKeepingFailed(r, commit_ok) ==
    /\ At(r, "sheets_to_db_sync", "rows")
    /\ LET entry == runs[r].sheet_data[runs[r].i]
           last == runs[r].i = Len(runs[r].sheet_data)
           next == IF last THEN "close" ELSE "rows"
           failed == \/ ProcessRaises(entry)
                     \/ UniqueViolation(users, ImportedUser(entry))
                     \/ ~commit_ok
       IN  /\ users' = IF ProcessRaises(entry) THEN users
                       ELSE Append(users, ImportedUser(entry))
           /\ Step(r, IF failed
                      THEN [runs[r] EXCEPT !.i = @ + 1, !.pc = next,
                              !.errors = Append(@, [error |-> "failed", entry |-> entry])]
                      ELSE [runs[r] EXCEPT !.i = @ + 1, !.pc = next,
                              !.processed = @ + 1, !.added = @ + 1])
    /\ UNCHANGED <<activities, logs, sheet, now, response, calcVars>>

ImportRow(r, commit_ok) ==
    /\ At(r, "sheets_to_db_sync", "rows")
    /\ LET entry == runs[r].sheet_data[runs[r].i]
           last == runs[r].i = Len(runs[r].sheet_data)
           next == IF last THEN "close" ELSE "rows"
       IN  IF ProcessRaises(entry)
           THEN /\ Step(r, [runs[r] EXCEPT !.i = @ + 1, !.pc = next,
                              !.errors = Append(@, [error |-> "ValueError", entry |-> entry])])
                /\ UNCHANGED users
           ELSE IF UniqueViolation(users, ImportedUser(entry)) \/ ~commit_ok
           THEN /\ Step(r, [runs[r] EXCEPT !.i = @ + 1, !.pc = next,
                              !.errors = Append(@, [error |-> "commit failed", entry |-> entry])])
                /\ UNCHANGED users
           ELSE /\ users' = Append(users, ImportedUser(entry))
                /\ Step(r, [runs[r] EXCEPT !.i = @ + 1, !.pc = next,
                              !.processed = @ + 1, !.added = @ + 1])
    /\ UNCHANGED <<activities, logs, sheet, now, response, calcVars>>

\* if not sheet_data: the log is closed "success" with a message
ImportCloseEmpty(r) ==
    /\ At(r, "sheets_to_db_sync", "close_empty")
    /\ CloseLog(r, "success", PyStr("No data found in sheets"))
    /\ Finish(r)
    /\ UNCHANGED <<users, activities, sheet, now, response, calcVars>>

\* the status the log gets after the loop
StatusAfterRowsIgnoringErrors(errors) == "success"

StatusAfterRows(errors) == IF errors = <<>> THEN "success" ELSE "partial_success"

\* # Update sync log
ImportClose(r) ==
    /\ At(r, "sheets_to_db_sync", "close")
    /\ CloseLog(r, StatusAfterRows(runs[r].errors),
                IF runs[r].errors # <<>> THEN PyStr(ToString(runs[r].errors)) ELSE PyNone)
    /\ Finish(r)
    /\ UNCHANGED <<users, activities, sheet, now, response, calcVars>>

\* except Exception as e: the log is closed "failure"
ImportCloseFailure(r) ==
    /\ At(r, "sheets_to_db_sync", "close_failure")
    /\ CloseLog(r, "failure", PyStr("Sync failed: " \o runs[r].exc))
    /\ Finish(r)
    /\ UNCHANGED <<users, activities, sheet, now, response, calcVars>>

(***************************************************************************)
(* get_db_data and sync_to_sheets                                          *)
(***************************************************************************)
UserRow(user) ==
    <<user.name.v, Str(user.age), user.email.v, Str(user.height), Str(user.weight),
      Str(user.insurance_risk_score), Str(user.diabetes_risk_score),
      Str(user.medical_history), Str(user.lifestyle_factors), Str(user.is_active)>>

ActivityRow(activity) ==
    <<Str(activity.id), Str(activity.user_id), activity.activity_type,
      Str(activity.timestamp), Str(activity.duration), Str(activity.points_earned),
      Str(activity.details)>>

LogRowWithStatus(log) ==
    <<Str(PyNum(log.id)), Str(log.user_id), log.assessment_type, Str(log.timestamp),
      Str(log.risk_score), Str(log.factors), log.sync_status>>

LogRow(log) ==
    <<Str(PyNum(log.id)), Str(log.user_id), log.assessment_type, Str(log.timestamp),
      Str(log.risk_score), Str(log.factors)>>

get_db_data ==
    [user_data |-> [i \in 1..Len(users) |-> UserRow(users[i])],
     health_activities |-> [i \in 1..Len(activities) |-> ActivityRow(activities[i])],
     risk_assessment_logs |-> [i \in 1..Len(logs) |-> LogRow(logs[i])]]

\* `if not values: ... continue`: the ranges from k on that are passed over, and the
\* first one that is not (4: the loop is over)
NextRange(data, k) ==
    IF \E j \in k..3 : data[RangeOrder[j]] # <<>>
    THEN CHOOSE j \in k..3 :
            /\ data[RangeOrder[j]] # <<>>
            /\ \A h \in k..(j - 1) : data[RangeOrder[h]] = <<>>
    ELSE 4

\* results, with the ranges from k to j - 1 skipped
Skipped(results, k, j) ==
    results \o [h \in 1..(j - k) |-> <<RangeOrder[k + h - 1], "skipped">>]

\* the run moves to the next range with data, or leaves the loop
Advance(run, k) ==
    LET j == NextRange(run.db_data, k)
    IN  [run EXCEPT !.k = j, !.results = Skipped(@, k, j),
                    !.pc = IF j > 3 THEN "close" ELSE "clear"]

\* POST /sync/to_sheets: the background task opens its log
StartExport ==
    /\ Len(runs) < MaxRuns
    /\ LoopIdle
    /\ logs' = Append(logs, RiskAssessmentLog("db_to_sheets_sync", PyNum(now)))
    /\ LET a == Len(runs)
           prev == IF /\ a > 0
                      /\ \A r \in 1..a : runs[r].pc \in {"done", "retired"}
                      /\ runs[a].kind = "db_to_sheets_sync"
                      /\ runs[a].pc = "done"
                      /\ runs[a].alone
                   THEN [found |-> TRUE, results |-> runs[a].results,
                         status |-> logs[runs[a].log].sync_status,
                         sheetEnd |-> runs[a].sheetEnd]
                   ELSE NoPrev
       IN  runs' = Append(Touch(runs, 0), NewRun("db_to_sheets_sync", "snapshot", prev))
    /\ now' = now + 1
    /\ UNCHANGED <<users, activities, sheet, response, calcVars>>

\* update_sheets: `if not self.authenticate(): raise`
AfterAuthIgnoringFailure(run, outcome) ==
    Advance([run EXCEPT !.calls = Append(@, <<"authenticate", outcome>>)], 1)

AfterAuth(run, outcome) ==
    IF outcome = "ok"
    THEN Advance([run EXCEPT !.calls = Append(@, <<"authenticate", outcome>>)], 1)
    ELSE [run EXCEPT !.calls = Append(@, <<"authenticate", outcome>>),
                     !.exc = ExceptionMessage(outcome), !.pc = "close_failure"]

\* db_data = self.get_db_data(); self.sheets_client.update_sheets(db_data), up to the loop
ExportPrepare(r, outcome) ==
    /\ At(r, "db_to_sheets_sync", "snapshot")
    /\ Step(r, AfterAuth([runs[r] EXCEPT !.db_data = get_db_data], outcome))
    /\ UNCHANGED <<users, activities, logs, sheet, now, response, calcVars>>

\* a call of the loop body that raised: an HttpError is recorded and the loop goes on,
\* another exception leaves update_sheets
AfterRaise(run, outcome) ==
    IF outcome = "http_error"
    THEN Advance([run EXCEPT !.results = Append(@, <<RangeOrder[run.k], "error">>)],
                 run.k + 1)
    ELSE [run EXCEPT !.exc = ExceptionMessage(outcome), !.pc = "close_failure"]

\* batchClear of the range
ExportClear(r, outcome) ==
    /\ At(r, "db_to_sheets_sync", "clear")
    /\ LET name == RangeOrder[runs[r].k]
           run == [runs[r] EXCEPT !.calls = Append(@, <<"batchClear", outcome>>)]
       IN  IF outcome = "ok"
           THEN /\ sheet' = BatchClear(sheet, name)
                /\ Step(r, [run EXCEPT !.pc = "write"])
           ELSE /\ UNCHANGED sheet
                /\ Step(r, AfterRaise(run, outcome))
    /\ UNCHANGED <<users, activities, logs, now, response, calcVars>>

\* update of the range with the table's rows
ExportWrite(r, outcome) ==
    /\ At(r, "db_to_sheets_sync", "write")
    /\ LET name == RangeOrder[runs[r].k]
           run == [runs[r] EXCEPT !.calls = Append(@, <<"update", outcome>>)]
       IN  IF outcome = "ok"
           THEN /\ sheet' = Update(sheet, name, runs[r].db_data[name])
                /\ Step(r, Advance([run EXCEPT !.results = Append(@, <<name, "success">>)],
                                   runs[r].k + 1))
           ELSE /\ UNCHANGED sheet
                /\ Step(r, AfterRaise(run, outcome))
    /\ UNCHANGED <<users, activities, logs, now, response, calcVars>>

\* # Update sync log
ExportClose(r) ==
    /\ At(r, "db_to_sheets_sync", "close")
    /\ CloseLog(r, "success", PyNone)
    /\ Finish(r)
    /\ UNCHANGED <<users, activities, sheet, now, response, calcVars>>

\* except Exception as e: the log is closed "failure"
ExportCloseFailure(r) ==
    /\ At(r, "db_to_sheets_sync", "close_failure")
    /\ CloseLog(r, "failure", PyStr(runs[r].exc))
    /\ Finish(r)
    /\ UNCHANGED <<users, activities, sheet, now, response, calcVars>>

(***************************************************************************)
(* sync_data: a plain function that calls the two coroutine functions      *)
(* without awaiting them; each call returns a coroutine object.            *)
(***************************************************************************)
\* POST /sync/: the background task opens its log
StartBidirectional ==
    /\ Len(runs) < MaxRuns
    /\ \E tz \in UtcOffsets :
          /\ logs' = Append(logs, RiskAssessmentLog("synchronization", PyNum(now + tz)))
          /\ runs' = Append(Touch(runs, 0),
                            [NewRun("synchronization", "phases", NoPrev) EXCEPT !.tz = tz])
    /\ now' = now + 1
    /\ UNCHANGED <<users, activities, sheet, response, calcVars>>

\* a run that waits while another bidirectional run is open
BidirectionalPhasesWaiting(r) ==
    /\ At(r, "synchronization", "phases")
    /\ \A q \in 1..Len(runs) : q # r => ~At(q, "synchronization", "phases")
    /\ CloseLog(r, "success", PyNone)
    /\ runs' = [Touch(runs, r) EXCEPT ![r] =
                    [@ EXCEPT !.sheets_result = "coroutine", !.db_result = "coroutine",
                              !.pc = "done"]]
    /\ UNCHANGED <<users, activities, sheet, now, response, calcVars>>

\* sheets_result = self.sync_from_sheets(last_sync_time); db_result = self.sync_to_sheets();
\* then the log is closed "success"
BidirectionalPhases(r) ==
    /\ At(r, "synchronization", "phases")
    /\ CloseLog(r, "success", PyNone)
    /\ runs' = [Touch(runs, r) EXCEPT ![r] =
                    [@ EXCEPT !.sheets_result = "coroutine", !.db_result = "coroutine",
                              !.pc = "done"]]
    /\ UNCHANGED <<users, activities, sheet, now, response, calcVars>>

(***************************************************************************)
(* The handlers that only answer.                                          *)
(***************************************************************************)
\* the two scores, each under the other's name
get_risk_scores_swapped(body) ==
    LET user_data == UserDataCreate(body)
    IN  [code |-> 200,
         body |-> [insurance_risk_score |-> PyNum(calculate_diabetes_risk(user_data)),
                   diabetes_risk_score |-> PyNum(calculate_insurance_risk(user_data))]]

\* POST /risk_scores/: RiskScoresResponse(insurance_risk_score=..., diabetes_risk_score=...)
get_risk_scores(body) ==
    LET user_data == UserDataCreate(body)
    IN  [code |-> 200,
         body |-> [insurance_risk_score |-> PyNum(calculate_insurance_risk(user_data)),
                   diabetes_risk_score |-> PyNum(calculate_diabetes_risk(user_data))]]

\* the strings EmailStr accepts, among those the model stores
EmailStrs == {"a@x.org"}

\* UserDataResponse.from_orm(user) raises: email is no address, or medical_history or
\* lifestyle_factors is neither None nor a mapping
FromOrmRaises(user) ==
    \/ user.email.t # "str"
    \/ user.email.v \notin EmailStrs
    \/ user.medical_history.t \notin {"None", "dict"}
    \/ user.lifestyle_factors.t \notin {"None", "dict"}

\* GET /user/: `if not users: return []`, else one UserDataResponse per row (the rows
\* of the model are fewer than the default limit of 100; a row's id is not modelled)
get_all_user_data ==
    IF users = <<>> THEN [code |-> 200, body |-> <<>>]
    ELSE IF \E i \in 1..Len(users) : FromOrmRaises(users[i])
    THEN [code |-> 500, detail |-> "Failed to retrieve user data"]
    ELSE [code |-> 200, body |-> users]

\* datetime.isoformat(): a string, here the digits of the hour
IsoFormat(time) == IF time.t = "None" THEN PyNone ELSE PyStr(ToString(time.v))

\* order_by(sync_start_time.desc()).first(): a row no other row's start time exceeds;
\* which one of several the database answers with is not fixed by the query
LastSyncs ==
    {l \in 1..Len(logs) :
        \A m \in 1..Len(logs) : logs[m].sync_start_time.v <= logs[l].sync_start_time.v}

\* GET /sync/status, last_sync being the row l (0: there is no row)
get_sync_status(l) ==
    IF l = 0
    THEN [code |-> 200,
          body |-> [status |-> "no_sync", message |-> "No sync operations found"]]
    ELSE [code |-> 200,
          body |-> [status |-> logs[l].sync_status,
                    last_sync_type |-> logs[l].assessment_type,
                    start_time |-> IsoFormat(logs[l].sync_start_time),
                    end_time |-> IsoFormat(logs[l].sync_end_time),
                    error_message |-> logs[l].sync_error_message]]

(***************************************************************************)
(* The system.                                                             *)
(***************************************************************************)
\* the handlers for user rows, as the synchronisation runs see them: the answer is
\* not kept
PostUser ==
    /\ \E body \in Bodies : users' = create_user_data(body).users
    /\ runs' = Touch(runs, 0)
    /\ UNCHANGED <<activities, logs, sheet, now, response, calcVars>>

DeleteUsers ==
    /\ users' = delete_all_users.users
    /\ runs' = Touch(runs, 0)
    /\ UNCHANGED <<activities, logs, sheet, now, response, calcVars>>

\* a row of data typed into the sheet by hand
SampleRow(n) ==
    <<"user" \o ToString(n), "40", "u" \o ToString(n) \o "@x.org", "1700", "750", "0", "0",
      "", "", "True">>

HeaderRow ==
    <<"Name", "Age", "Email", "Height (cm)", "Weight (kg)", "Insurance Risk Score",
      "Diabetes Risk Score", "Medical History", "Lifestyle Factors", "Is Active">>

\* what the user_data range may hold at the start: nothing, or the header row
\* get_sheet_data expects ("First row contains headers") and rows of data below it
InitialUserRanges ==
    {<<>>} \cup {<<HeaderRow>> \o [i \in 1..(n - 1) |-> SampleRow(i)] : n \in 1..MaxSheetRows}

\* a row left in a range by an earlier use of the spreadsheet
StaleRow == <<"stale">>

Init ==
    /\ calcIn = EmptyDict
    /\ calcOut = NoScores
    /\ users = <<>>
    /\ activities = <<>>
    /\ logs = <<>>
    /\ \E u \in InitialUserRanges :
          sheet = [user_data |-> u, health_activities |-> <<StaleRow>>,
                   risk_assessment_logs |-> <<StaleRow>>]
    /\ runs = <<>>
    /\ now = 0
    /\ response = NoResponse

RunStep(r) ==
    \/ \E outcome \in {"ok", "auth_failed", "error"} : ImportFetch(r, outcome)
    \/ \E commit_ok \in BOOLEAN : ImportRow(r, commit_ok)
    \/ ImportCloseEmpty(r)
    \/ ImportClose(r)
    \/ ImportCloseFailure(r)
    \/ \E outcome \in {"ok", "auth_failed"} : ExportPrepare(r, outcome)
    \/ \E outcome \in {"ok", "http_error", "error"} : ExportClear(r, outcome)
    \/ \E outcome \in {"ok", "http_error", "error"} : ExportWrite(r, outcome)
    \/ ExportClose(r)
    \/ ExportCloseFailure(r)
    \/ BidirectionalPhases(r)

Next ==
    \/ PostUser
    \/ DeleteUsers
    \/ StartImport
    \/ StartExport
    \/ StartBidirectional
    \/ \E r \in 1..Len(runs) : RunStep(r)

Spec == Init /\ [][Next]_vars

\* the process does not crash and every gateway call returns: a run that can take its
\* next step takes it
FairSpec == Spec /\ \A r \in 1..MaxRuns : WF_vars(r \in 1..Len(runs) /\ RunStep(r))

(***************************************************************************)
(* The application served by more than one process (uvicorn workers, or a  *)
(* second instance) on the one database and the one spreadsheet: each      *)
(* process has an event loop of its own, so a coroutine run is started     *)
(* while another has not ended.                                            *)
(***************************************************************************)
\* POST /sync/to_sheets answered by a process whose loop is idle, beside a run of
\* another process
StartExportBeside ==
    /\ Len(runs) < MaxRuns
    /\ ~LoopIdle
    /\ logs' = Append(logs, RiskAssessmentLog("db_to_sheets_sync", PyNum(now)))
    /\ runs' = Append(Touch(runs, 0), NewRun("db_to_sheets_sync", "snapshot", NoPrev))
    /\ now' = now + 1
    /\ UNCHANGED <<users, activities, sheet, response, calcVars>>

\* POST /sync/from_sheets answered the same way
StartImportBeside ==
    /\ Len(runs) < MaxRuns
    /\ ~LoopIdle
    /\ logs' = Append(logs, RiskAssessmentLog("sheets_to_db_sync", PyNum(now)))
    /\ runs' = Append(Touch(runs, 0), NewRun("sheets_to_db_sync", "fetch", NoPrev))
    /\ now' = now + 1
    /\ UNCHANGED <<users, activities, sheet, response, calcVars>>

WorkersNext ==
    \/ Next
    \/ StartExportBeside
    \/ StartImportBeside

SpecWorkers == Init /\ [][WorkersNext]_vars

(***************************************************************************)
(* The system with the handlers' answers: `response` holds the request and *)
(* the answer of the handler that has just returned, until the client has  *)
(* taken it.                                                               *)
(***************************************************************************)
\* the request bodies of the clients: two that differ in the exercise category only
ApiBodies ==
    Bodies \cup
    {MkDict([name |-> PyStr("Alice"), age |-> PyNum(30), email |-> PyStr("a@x.org"),
             height |-> PyNum(1805), weight |-> PyNum(750),
             medical_history |-> MkDict([conditions |-> PyList(<<PyStr("none")>>)]),
             lifestyle_factors |-> MkDict([exercise |-> PyStr("never")]),
             insurance_risk_score |-> PyNum(9999),
             diabetes_risk_score |-> PyNum(9999)])}

Recorded(op, request, answer) == [op |-> op, request |-> request, answer |-> answer]

CreateUser(body) ==
    /\ response = NoResponse
    /\ users' = create_user_data(body).users
    /\ response' = Recorded("create_user_data", body, create_user_data(body).response)
    /\ runs' = Touch(runs, 0)
    /\ UNCHANGED <<activities, logs, sheet, now, calcVars>>

GetAllUserData ==
    /\ response = NoResponse
    /\ response' = Recorded("get_all_user_data", PyNone, get_all_user_data)
    /\ UNCHANGED <<users, activities, logs, sheet, runs, now, calcVars>>

DeleteAllUsers ==
    /\ response = NoResponse
    /\ users' = delete_all_users.users
    /\ response' = Recorded("delete_all_users", PyNone, delete_all_users.response)
    /\ runs' = Touch(runs, 0)
    /\ UNCHANGED <<activities, logs, sheet, now, calcVars>>

GetRiskScores(body) ==
    /\ response = NoResponse
    /\ response' = Recorded("get_risk_scores", body, get_risk_scores(body))
    /\ UNCHANGED <<users, activities, logs, sheet, runs, now, calcVars>>

GetSyncStatus ==
    /\ response = NoResponse
    /\ \E l \in (IF logs = <<>> THEN {0} ELSE LastSyncs) :
          response' = Recorded("get_sync_status", PyNone, get_sync_status(l))
    /\ UNCHANGED <<users, activities, logs, sheet, runs, now, calcVars>>

\* the client has the answer
Returned ==
    /\ response # NoResponse
    /\ response' = NoResponse
    /\ UNCHANGED <<users, activities, logs, sheet, runs, now, calcVars>>

\* the operations that start and carry the runs, between two answers
Background ==
    /\ response = NoResponse
    /\ \/ StartImport
       \/ StartExport
       \/ StartBidirectional
       \/ \E r \in 1..Len(runs) : RunStep(r)

ApiNext ==
    \/ \E body \in ApiBodies : CreateUser(body)
    \/ GetAllUserData
    \/ DeleteAllUsers
    \/ \E body \in ApiBodies : GetRiskScores(body)
    \/ GetSyncStatus
    \/ Returned
    \/ Background

SpecApi == Init /\ [][ApiNext]_vars

(***************************************************************************)
(* The sub-scores and weighted sums as the specification states them,      *)
(* written on their own: a step function is the number of thresholds the   *)
(* value exceeds, a category lookup is a table with 0.5 outside it.        *)
(***************************************************************************)
StatedStep(exceeded) == <<20, 40, 70, 100>>[1 + exceeded]

StatedAgeRisk(age) == StatedStep(Cardinality({t \in {30, 50, 70} : age > t}))

StatedAgeRiskDiabetes(age) == StatedStep(Cardinality({t \in {35, 45, 65} : age > t}))

\* bmi = kg / m^2 compared with t: weight * 100000 against t * height^2
StatedBmiRisk(height, weight) ==
    LET over == Cardinality({t \in {25, 30, 35} : weight * 100000 > t * height * height})
    IN  IF height <= 0 THEN 50
        ELSE IF over > 0 THEN <<60, 80, 100>>[over]
        ELSE IF weight * 1000000 < 185 * height * height THEN 40
        ELSE 20

StatedCategory(x, table) ==
    IF x.t = "str" /\ \E k \in DOMAIN table : k = Lower(x.v) THEN table[Lower(x.v)] ELSE 50

StatedSmoking == [current |-> 100, former |-> 60, never |-> 10]
StatedExercise == [never |-> 100, rarely |-> 80, sometimes |-> 60, regularly |-> 30, daily |-> 10]
StatedDiet == [unhealthy |-> 100, average |-> 50, healthy |-> 20, very_healthy |-> 10]

\* the condition names of a list, lower-cased and trimmed, by position
StatedNames(conditions) ==
    [i \in 1..Len(conditions.v) |-> Strip(Lower(conditions.v[i].v))]

StatedMedicalRisk(conditions) ==
    LET names == StatedNames(conditions)
        high == Cardinality({i \in DOMAIN names :
                                names[i] \in {"heart disease", "diabetes", "cancer"}})
        medium == Cardinality({i \in DOMAIN names :
                                names[i] \in {"hypertension", "high cholesterol"}})
        total == 30 + 30 * high + 15 * medium
    IN  IF total > 100 THEN 100 ELSE total

StatedFamilyRisk(conditions) ==
    LET names == StatedNames(conditions)
        total == 20 + (IF \E i \in DOMAIN names : names[i] = "diabetes" THEN 40 ELSE 0)
                    + (IF \E i \in DOMAIN names : names[i] = "heart disease" THEN 20 ELSE 0)
    IN  IF total > 100 THEN 100 ELSE total

StatedInsuranceRisk(age, height, weight, smoking, exercise, conditions) ==
    20 * StatedAgeRisk(age) + 15 * StatedBmiRisk(height, weight)
    + 25 * StatedCategory(smoking, StatedSmoking)
    + 15 * StatedCategory(exercise, StatedExercise)
    + 25 * StatedMedicalRisk(conditions)

StatedDiabetesRisk(age, height, weight, exercise, diet, conditions) ==
    15 * StatedAgeRiskDiabetes(age) + 20 * StatedBmiRisk(height, weight)
    + 25 * StatedFamilyRisk(conditions)
    + 20 * StatedCategory(exercise, StatedExercise)
    + 20 * StatedCategory(diet, StatedDiet)

\* a record the calculator is meant for: numbers for age, height and weight, a dict of
\* categories (each a string or missing) and a dict holding a list of condition names
WellFormed(d) ==
    /\ {"age", "height", "weight", "lifestyle_factors", "medical_history"} \subseteq DOMAIN d.v
    /\ d.v.age.t = "num" /\ d.v.height.t = "num" /\ d.v.weight.t = "num"
    /\ d.v.lifestyle_factors.t = "dict"
    /\ \A k \in DOMAIN d.v.lifestyle_factors.v :
          d.v.lifestyle_factors.v[k].t \in {"str", "None"}
    /\ d.v.medical_history.t = "dict"
    /\ "conditions" \in DOMAIN d.v.medical_history.v
    /\ d.v.medical_history.v.conditions.t = "list"

\* the record of the specification's worked example
ExampleRecord ==
    MkDict([age |-> PyNum(30), height |-> PyNum(1805), weight |-> PyNum(750),
            lifestyle_factors |->
                MkDict([smoking_status |-> PyStr("never"),
                        exercise_frequency |-> PyStr("daily"),
                        diet_type |-> PyStr("healthy")]),
            medical_history |-> MkDict([conditions |-> PyList(<<PyStr("none")>>)])])

(***************************************************************************)
(* Properties of the risk calculator, under SpecCalc.                      *)
(***************************************************************************)
\* C1: for every input record (any age, any height and weight including zero, negative
\* or missing, any categories, any list of conditions) each of the two scores the
\* calculator returns lies in [0, 1], the 0.5 fallback included.
C1_ScoresInUnitInterval ==
    /\ \A i \in DOMAIN calcOut.insurance : calcOut.insurance[i] \in 0..10000
    /\ \A i \in DOMAIN calcOut.diabetes : calcOut.diabetes[i] \in 0..10000

\* both scores are computed for a record with a negative height and no age, and for it
\* the weighted sum, not the fallback, is what the calculator returns
C1_Witness ==
    /\ calcOut.insurance # <<>> /\ calcOut.diabetes # <<>>
    /\ "age" \notin DOMAIN calcIn.v
    /\ "height" \in DOMAIN calcIn.v /\ calcIn.v.height = PyNum(0 - 1700)
    /\ ~calculate_insurance_risk_raises(calcIn)
    /\ ~calculate_diabetes_risk_raises(calcIn)

\* C2: for every well-formed record the insurance score is
\* 0.20 age + 0.15 bmi + 0.25 smoking + 0.15 exercise + 0.25 medical and the diabetes
\* score is 0.15 age (diabetes thresholds) + 0.20 bmi + 0.25 family + 0.20 exercise
\* + 0.20 diet, each sub-score the step function or category lookup of the
\* specification; the worked example (age 30, 180.5 cm, 75 kg, "never", "daily",
\* ["none"]) scores 0.185 for insurance.
C2_WeightedSums ==
    /\ WellFormed(calcIn) =>
        LET age == calcIn.v.age.v
            height == calcIn.v.height.v
            weight == calcIn.v.weight.v
            lifestyle == calcIn.v.lifestyle_factors
            conditions == calcIn.v.medical_history.v.conditions
        IN  /\ \A i \in DOMAIN calcOut.insurance :
                  calcOut.insurance[i] =
                      StatedInsuranceRisk(age, height, weight,
                          Get(lifestyle, "smoking_status", PyNone),
                          Get(lifestyle, "exercise_frequency", PyNone), conditions)
            /\ \A i \in DOMAIN calcOut.diabetes :
                  calcOut.diabetes[i] =
                      StatedDiabetesRisk(age, height, weight,
                          Get(lifestyle, "exercise_frequency", PyNone),
                          Get(lifestyle, "diet_type", PyNone), conditions)
    /\ (calcIn = ExampleRecord /\ calcOut.insurance # <<>>) => calcOut.insurance = <<1850>>

\* the worked example has been scored, both ways
C2_Witness ==
    /\ calcIn = ExampleRecord
    /\ WellFormed(calcIn)
    /\ calcOut.insurance # <<>> /\ calcOut.diabetes # <<>>

\* the number a field holds, or 0 when the dict has no such key
NumberOr0(d, key) == IF key \in DOMAIN d.v THEN d.v[key].v ELSE 0

\* the dict a field holds, or {} when the dict has no such key
DictOrEmpty(d, key) == IF key \in DOMAIN d.v THEN d.v[key] ELSE EmptyDict

\* the weighted sums of the specification for a dict, a key it lacks read as the
\* calculator's default for it
StatedInsuranceOf(d) ==
    StatedInsuranceRisk(NumberOr0(d, "age"), NumberOr0(d, "height"), NumberOr0(d, "weight"),
        Get(DictOrEmpty(d, "lifestyle_factors"), "smoking_status", PyNone),
        Get(DictOrEmpty(d, "lifestyle_factors"), "exercise_frequency", PyNone),
        Get(DictOrEmpty(d, "medical_history"), "conditions", PyList(<<>>)))

StatedDiabetesOf(d) ==
    StatedDiabetesRisk(NumberOr0(d, "age"), NumberOr0(d, "height"), NumberOr0(d, "weight"),
        Get(DictOrEmpty(d, "lifestyle_factors"), "exercise_frequency", PyNone),
        Get(DictOrEmpty(d, "lifestyle_factors"), "diet_type", PyNone),
        Get(DictOrEmpty(d, "medical_history"), "conditions", PyList(<<>>)))

\* C15: when computing one of the two scores raises, that score is returned as exactly
\* 0.5; the fallback is that score's only: the other score is the weighted sum whenever
\* its own computation does not raise.
C15_FallbackPerScore ==
    /\ \A i \in DOMAIN calcOut.insurance :
          calcOut.insurance[i] = IF calculate_insurance_risk_raises(calcIn) THEN 5000
                                 ELSE StatedInsuranceOf(calcIn)
    /\ \A i \in DOMAIN calcOut.diabetes :
          calcOut.diabetes[i] = IF calculate_diabetes_risk_raises(calcIn) THEN 5000
                                ELSE StatedDiabetesOf(calcIn)

\* the insurance score fell back to 0.5 on a smoking status that is no string, and the
\* diabetes score of the same record is its weighted sum, which is not 0.5
C15_Witness ==
    /\ calculate_insurance_risk_raises(calcIn)
    /\ ~calculate_diabetes_risk_raises(calcIn)
    /\ calcOut.insurance = <<5000>>
    /\ calcOut.diabetes = <<StatedDiabetesOf(calcIn)>>
    /\ calcOut.diabetes # <<5000>>

\* the record d with no conditions listed
WithoutConditions(d) == PyDict([d.v EXCEPT !.medical_history = EmptyDict])

\* how many entries of the list are, trimmed and lower-cased, among the names
Occurrences(conditions, names) ==
    Cardinality({i \in 1..Len(conditions.v) : Strip(Lower(conditions.v[i].v)) \in names})

\* the record's medical_history is a dict whose conditions are a list of strings
ListsConditions(d) ==
    /\ "medical_history" \in DOMAIN d.v
    /\ d.v.medical_history.t = "dict"
    /\ "conditions" \in DOMAIN d.v.medical_history.v
    /\ ~ConditionsRaise(d.v.medical_history.v.conditions)

\* C22: with h entries of the conditions list among heart disease, diabetes, cancer
\* and m among hypertension, high cholesterol, each counted as often as it is listed,
\* the medical sub-score is min(1.0, 0.3 + 0.3 h + 0.15 m), and it enters the insurance
\* score with weight 0.25; the family sub-score is 0.2, plus 0.4 if diabetes is
\* listed, plus 0.2 if heart disease is listed, however often, and it enters the
\* diabetes score with weight 0.25
C22_OccurrencesAndPresence ==
    ListsConditions(calcIn) =>
        LET conditions == calcIn.v.medical_history.v.conditions
            h == Occurrences(conditions, {"heart disease", "diabetes", "cancer"})
            m == Occurrences(conditions, {"hypertension", "high cholesterol"})
            medical == IF 30 + 30 * h + 15 * m > 100 THEN 100 ELSE 30 + 30 * h + 15 * m
            family == 20 + (IF Occurrences(conditions, {"diabetes"}) > 0 THEN 40 ELSE 0)
                         + (IF Occurrences(conditions, {"heart disease"}) > 0 THEN 20 ELSE 0)
        IN  /\ calcOut.insurance # <<>>
                  => _calculate_medical_risk(calcIn.v.medical_history) = medical
            /\ calcOut.diabetes # <<>> => _calculate_family_risk(conditions) = family
            /\ \A i \in DOMAIN calcOut.insurance :
                  ~calculate_insurance_risk_raises(calcIn)
                      => calcOut.insurance[i]
                             - calculate_insurance_risk(WithoutConditions(calcIn))
                         = 25 * (medical - 30)
            /\ \A i \in DOMAIN calcOut.diabetes :
                  ~calculate_diabetes_risk_raises(calcIn)
                      => calcOut.diabetes[i]
                             - calculate_diabetes_risk(WithoutConditions(calcIn))
                         = 25 * (family - 20)

\* both scores are computed for a record that lists diabetes twice: two occurrences
\* for the medical sub-score, one presence for the family sub-score
C22_Witness ==
    /\ ListsConditions(calcIn)
    /\ Occurrences(calcIn.v.medical_history.v.conditions, {"diabetes"}) = 2
    /\ calcOut.insurance # <<>> /\ calcOut.diabetes # <<>>
    /\ ~calculate_insurance_risk_raises(calcIn)
    /\ ~calculate_diabetes_risk_raises(calcIn)
    /\ calcOut.insurance[1] - calculate_insurance_risk(WithoutConditions(calcIn)) = 1500
    /\ calcOut.diabetes[1] - calculate_diabetes_risk(WithoutConditions(calcIn)) = 1000

(***************************************************************************)
(* Properties of the record store and of the synchronisation runs, under   *)
(* Spec.                                                                   *)
(***************************************************************************)
\* a stored row's own category: the value its lifestyle_factors holds under one of the
\* given names
RecordCategory(row, names) ==
    IF row.lifestyle_factors.t = "dict"
          /\ \E k \in names : k \in DOMAIN row.lifestyle_factors.v
    THEN row.lifestyle_factors.v[CHOOSE k \in names : k \in DOMAIN row.lifestyle_factors.v]
    ELSE PyNone

\* a stored row's own condition names
RecordConditions(row) ==
    IF row.medical_history.t = "dict" THEN Get(row.medical_history, "conditions", PyList(<<>>))
    ELSE PyList(<<>>)

RecordInsuranceRisk(row) ==
    StatedInsuranceRisk(row.age.v, row.height.v, row.weight.v,
        RecordCategory(row, {"smoking_status"}), RecordCategory(row, {"exercise"}),
        RecordConditions(row))

RecordDiabetesRisk(row) ==
    StatedDiabetesRisk(row.age.v, row.height.v, row.weight.v,
        RecordCategory(row, {"exercise"}), RecordCategory(row, {"diet"}),
        RecordConditions(row))

\* C3: every stored user row, created by POST /user/ or by an import run, carries the
\* insurance and diabetes scores the weighted-sum formula yields for the row's own age,
\* height, weight, categories and conditions.
C3_StoredScoresFollowFormula ==
    \A i \in 1..Len(users) :
        /\ users[i].insurance_risk_score = PyNum(RecordInsuranceRisk(users[i]))
        /\ users[i].diabetes_risk_score = PyNum(RecordDiabetesRisk(users[i]))

IsImport(r) == runs[r].kind = "sheets_to_db_sync" /\ runs[r].pc # "retired"
IsExport(r) == runs[r].kind = "db_to_sheets_sync" /\ runs[r].pc # "retired"

CallsOk(r) == \A c \in 1..Len(runs[r].calls) : runs[r].calls[c][2] = "ok"

\* C5: when an import run has finished, its log row has status success iff the fetch
\* succeeded and the error list is empty, partial_success iff the fetch succeeded and a
\* row failed (the error list then serialized into the row's message), and failure iff
\* the fetch raised.
C5_ImportStatus ==
    \A r \in 1..Len(runs) : (IsImport(r) /\ runs[r].pc = "done") =>
        LET log == logs[runs[r].log]
            fetched == Len(runs[r].calls) = 2 /\ CallsOk(r)
        IN  /\ log.sync_status \in {"success", "partial_success", "failure"}
            /\ log.sync_status = "success" <=> (fetched /\ runs[r].errors = <<>>)
            /\ log.sync_status = "partial_success" <=> (fetched /\ runs[r].errors # <<>>)
            /\ log.sync_status = "partial_success"
                  => log.sync_error_message = PyStr(ToString(runs[r].errors))
            /\ log.sync_status = "failure" <=> ~fetched

\* an import run has finished with a failed row
C5_Witness ==
    \E r \in 1..Len(runs) :
        /\ IsImport(r) /\ runs[r].pc = "done"
        /\ runs[r].errors # <<>>
        /\ logs[runs[r].log].sync_status = "partial_success"

\* C6: after an export run that closed its log with status success, nothing else having
\* acted meanwhile, each of the three ranges holds exactly the rows the run serialized
\* from the table, an empty table included; no earlier row of the range remains.
C6_ExportReplacesRanges ==
    \A r \in 1..Len(runs) :
        (IsExport(r) /\ runs[r].pc = "done" /\ runs[r].alone
            /\ logs[runs[r].log].sync_status = "success")
        => \A n \in DOMAIN runs[r].sheetEnd : runs[r].sheetEnd[n] = runs[r].db_data[n]

\* no range was reported in error
NoRangeError(results) == \A j \in 1..Len(results) : results[j][2] # "error"

\* run r is the second of two export runs in succession: the first ended right before
\* the second started, nothing else acted from the start of the first to the end of the
\* second, and in both every gateway call succeeded
SecondOfTwoExports(r) ==
    /\ IsExport(r) /\ runs[r].pc = "done" /\ runs[r].alone
    /\ runs[r].prev.found
    /\ logs[runs[r].log].sync_status = "success" /\ NoRangeError(runs[r].results)
    /\ runs[r].prev.status = "success" /\ NoRangeError(runs[r].prev.results)

HasCalled(r, name) == \E c \in 1..Len(runs[r].calls) : runs[r].calls[c][1] = name

\* C8: in every bidirectional run the import phase executes, then the export phase
\* executes: when the run has closed its log, the sheet was fetched and the tables were
\* written out by it.
C8_BothPhasesExecute ==
    \A r \in 1..Len(runs) :
        (runs[r].kind = "synchronization" /\ runs[r].pc = "done")
        => /\ HasCalled(r, "authenticate")
           /\ runs[r].sheets_result # "coroutine"
           /\ runs[r].db_result # "coroutine"

Terminal == {"success", "partial_success", "failure"}

\* C9: each invocation of import, export or bidirectional creates exactly one log row of
\* its own, with status in_progress, before it calls the gateway; the row's status
\* changes exactly once, to success, partial_success or failure, and never again; and
\* when the process does not crash and gateway calls return, every opened row is
\* eventually closed.  Checked under FairSpec.
C9_OneLogRowClosedOnce ==
    /\ [](/\ Len(logs) = Len(runs)
          /\ \A r \in 1..Len(runs) :
                /\ runs[r].log = r
                /\ logs[r].sync_status \in Terminal \cup {"in_progress"}
                /\ logs[r].sync_status \in Terminal <=> runs[r].pc \in {"done", "retired"})
    /\ [][/\ Len(logs') >= Len(logs)
          /\ Len(logs') > Len(logs) =>
                /\ Len(logs') = Len(logs) + 1
                /\ Len(runs') = Len(runs) + 1
                /\ logs'[Len(logs')].sync_status = "in_progress"
                /\ runs'[Len(runs')].calls = <<>>
                /\ sheet' = sheet
          /\ \A l \in 1..Len(logs) :
                logs'[l].sync_status # logs[l].sync_status =>
                    /\ logs[l].sync_status = "in_progress"
                    /\ logs'[l].sync_status \in Terminal]_vars
    /\ \A l \in 1..MaxRuns :
          [](Len(logs) >= l => <>(Len(logs) >= l /\ logs[l].sync_status \in Terminal))

\* two runs have been opened and both are closed, one
\* as a failure and one with failed rows
C9_Witness ==
    /\ Len(logs) = 2
    /\ logs[1].sync_status = "failure"
    /\ logs[2].sync_status = "partial_success"

\* the call at position c of run r is one whose failure ends the run: the
\* authentication or the fetch of an import, the authentication of an export
AbortingCall(r, c) ==
    /\ runs[r].calls[c][2] # "ok"
    /\ \/ IsImport(r) /\ runs[r].calls[c][1] \in {"authenticate", "get"}
       \/ IsExport(r) /\ runs[r].calls[c][1] = "authenticate"

\* C10: when the authentication or the fetch of an import fails, or the authentication
\* of an export fails, the run makes no further gateway call (no retry, no clear, no
\* write), creates no user row, and closes its log with status failure and the
\* exception's message.
C10_GatewayFailureAborts ==
    \A r \in 1..Len(runs) : \A c \in 1..Len(runs[r].calls) : AbortingCall(r, c) =>
        /\ c = Len(runs[r].calls)
        /\ \A b \in 1..(c - 1) : runs[r].calls[b][1] # runs[r].calls[c][1]
        /\ ~HasCalled(r, "batchClear") /\ ~HasCalled(r, "update")
        /\ runs[r].added = 0
        /\ runs[r].pc \in {"close_failure", "done"}
        /\ runs[r].pc = "done" =>
              /\ logs[runs[r].log].sync_status = "failure"
              /\ logs[runs[r].log].sync_error_message =
                    PyStr((IF IsImport(r) THEN "Sync failed: " ELSE "")
                          \o ExceptionMessage(runs[r].calls[c][2]))

\* an export run whose authentication failed has closed its log, after an import run
\* whose fetch failed
C10_Witness ==
    /\ Len(runs) = 2
    /\ runs[1].kind = "sheets_to_db_sync"
    /\ logs[1].sync_status = "failure"
    /\ runs[2].kind = "db_to_sheets_sync" /\ runs[2].pc = "done"
    /\ runs[2].calls = <<<<"authenticate", "auth_failed">>>>
    /\ logs[2].sync_status = "failure"

(***************************************************************************)
(* The type tags and statuses of the log rows.                             *)
(***************************************************************************)
StatedStatuses == {"pending", "in_progress", "success", "partial_success", "failure"}

\* C20 as stated: every log row's type tag is one of "sheets_to_db", "db_to_sheets",
\* "bidirectional" and its status one of pending, in_progress, success,
\* partial_success, failure
C20_StatedTagsAndStatuses ==
    \A l \in 1..Len(logs) :
        /\ logs[l].assessment_type \in {"sheets_to_db", "db_to_sheets", "bidirectional"}
        /\ logs[l].sync_status \in StatedStatuses

\* the tag of the row an operation opens, the operation told by the first thing its
\* run does: fetch the sheet (import), read the tables (export), run the two phases
OpenedTag(run) ==
    CASE run.pc = "fetch" -> "sheets_to_db_sync"
      [] run.pc = "snapshot" -> "db_to_sheets_sync"
      [] run.pc = "phases" -> "synchronization"

\* C20, amended: every log row's type tag is one of "sheets_to_db_sync",
\* "db_to_sheets_sync", "synchronization", set when the row is opened to the tag of the
\* operation that opens it and never changed, and its status is one of pending,
\* in_progress, success, partial_success, failure
C20_CodeTagsAndStatuses ==
    /\ [](\A l \in 1..Len(logs) :
            /\ logs[l].assessment_type
                   \in {"sheets_to_db_sync", "db_to_sheets_sync", "synchronization"}
            /\ logs[l].sync_status \in StatedStatuses)
    /\ [][/\ Len(logs') > Len(logs)
              => /\ Len(logs') = Len(logs) + 1 /\ Len(runs') = Len(runs) + 1
                 /\ logs'[Len(logs')].assessment_type = OpenedTag(runs'[Len(runs')])
                 /\ logs'[Len(logs')].sync_status = "in_progress"
          /\ \A l \in 1..Len(logs) :
                /\ Len(logs') >= l
                /\ logs'[l].assessment_type = logs[l].assessment_type]_vars

\* the rows of a bidirectional run and of an import run, both closed
C20_Witness ==
    /\ Len(logs) = 2
    /\ logs[1].assessment_type = "synchronization" /\ logs[1].sync_status = "success"
    /\ logs[2].assessment_type = "sheets_to_db_sync"
    /\ logs[2].sync_status = "partial_success"

(***************************************************************************)
(* Reading a range.                                                        *)
(***************************************************************************)
\* the rows of a range that are data: every row but the row of column names
DataRows(values) == {j \in 1..Len(values) : values[j] # HeaderRow}

\* the import run r has read the user_data range.  No export runs beside an import,
\* so the range is as the run read it until the run is over.
HasRead(r) ==
    /\ IsImport(r)
    /\ \E c \in 1..Len(runs[r].calls) : runs[r].calls[c] = <<"get", "ok">>

\* C19: a read of user_data returns one entry per data row of the range, the header
\* row excluded and no data row taken for it; after an export has cleared the range
\* and written n rows, the read returns n entries
C19_ReadReturnsEveryDataRow ==
    \A r \in 1..Len(runs) :
        HasRead(r) /\ runs[r].pc \in {"close_empty", "rows"}
            => Len(runs[r].sheet_data) = Cardinality(DataRows(sheet["user_data"]))

(***************************************************************************)
(* Bidirectional runs side by side.                                        *)
(***************************************************************************)
\* the runs a and b are bidirectional runs, both started and neither over
BothOpen(a, b) ==
    /\ Len(runs) >= b
    /\ At(a, "synchronization", "phases")
    /\ At(b, "synchronization", "phases")

\* C12: two bidirectional runs open at the same time both come to their end, in
\* whichever order they take their steps, and each closes its own log row with a
\* terminal status
C12_ConcurrentRunsTerminate ==
    \A a, b \in 1..MaxRuns :
        a < b => (BothOpen(a, b)
                    ~> /\ Len(runs) >= b
                       /\ logs[runs[a].log].sync_status \in Terminal
                       /\ logs[runs[b].log].sync_status \in Terminal
                       /\ runs[a].log # runs[b].log
                       /\ runs[a].pc \in {"done", "retired"}
                       /\ runs[b].pc \in {"done", "retired"})

\* two bidirectional runs were open together and the later one was the first to close
C12_Witness ==
    /\ Len(runs) = 2
    /\ At(1, "synchronization", "phases")
    /\ runs[2].kind = "synchronization" /\ runs[2].pc = "done"
    /\ logs[2].sync_status = "success" /\ logs[1].sync_status = "in_progress"

(***************************************************************************)
(* Properties of the handlers' answers, under SpecApi.                     *)
(***************************************************************************)
\* the handler op has just returned
Answered(op) == response # NoResponse /\ response.op = op

ScoresOf(row) == <<row.insurance_risk_score, row.diabetes_risk_score>>

\* C13: POST /risk_scores/ leaves the user, activity and log tables as they were and
\* answers with the two scores, and these are the scores POST /user/ stores for the
\* same body
C13_RiskScoresStateless ==
    /\ [](Answered("get_risk_scores")
            => /\ response.answer.code = 200
               /\ DOMAIN response.answer.body
                      = {"insurance_risk_score", "diabetes_risk_score"}
               /\ LET created == create_user_data(response.request)
                  IN  created.response.code = 200
                         => ScoresOf(created.users[Len(created.users)])
                                = ScoresOf(response.answer.body))
    /\ [](Answered("create_user_data") /\ response.answer.code = 200
            => ScoresOf(users[Len(users)])
                  = ScoresOf(get_risk_scores(response.request).body))
    /\ [][Answered("get_risk_scores")' /\ ~Answered("get_risk_scores")
              => UNCHANGED <<users, activities, logs>>]_vars

\* scores were asked for while a record and a log row are stored, and for a body
\* whose record is not stored
C13_Witness ==
    /\ Answered("get_risk_scores")
    /\ Len(users) = 1 /\ Len(logs) = 1
    /\ create_user_data(response.request).response.code = 200
    /\ response.answer.body.insurance_risk_score # response.answer.body.diabetes_risk_score

\* the scores in the answer of POST /risk_scores/, or of a POST /user/ that stored
AnsweredScores == ScoresOf(response.answer.body)

ScoresAnswered ==
    \/ Answered("get_risk_scores")
    \/ Answered("create_user_data") /\ response.answer.code = 200

\* the bodies b and c differ in the exercise category only, 'daily' against 'never'
DailyAgainstNever(b, c) ==
    /\ Get(Get(b, "lifestyle_factors", EmptyDict), "exercise", PyNone) = PyStr("daily")
    /\ Get(Get(c, "lifestyle_factors", EmptyDict), "exercise", PyNone) = PyStr("never")
    /\ c = PyDict([b.v EXCEPT !.lifestyle_factors =
                      PyDict([@.v EXCEPT !.exercise = PyStr("never")])])

\* C14: the scores answered for a request are the weighted sums with the exercise
\* and diet sub-scores of the categories the request submits in lifestyle_factors, so
\* a request with exercise 'daily' and the same request with exercise 'never' are
\* answered with different insurance and diabetes scores
C14_SubmittedCategoriesScore ==
    ScoresAnswered
        => /\ AnsweredScores
                 = <<PyNum(RecordInsuranceRisk(UserDataCreate(response.request).v)),
                     PyNum(RecordDiabetesRisk(UserDataCreate(response.request).v))>>
           /\ \A c \in ApiBodies :
                 DailyAgainstNever(response.request, c)
                     => /\ AnsweredScores[1] # get_risk_scores(c).body.insurance_risk_score
                        /\ AnsweredScores[2] # get_risk_scores(c).body.diabetes_risk_score

\* C16: DELETE /user/ removes every user row and leaves the activity and log tables
\* as they were; a GET /user/ of the emptied table answers with the empty list; and no
\* step of any other operation removes or changes a stored user row
C16_OnlyDeleteRemovesUsers ==
    /\ [][Answered("delete_all_users")' /\ ~Answered("delete_all_users")
              => /\ users' = <<>>
                 /\ get_all_user_data' = [code |-> 200, body |-> <<>>]
                 /\ response'.answer.code = 204
                 /\ UNCHANGED <<activities, logs>>]_vars
    /\ [](Answered("get_all_user_data") /\ users = <<>>
            => response.answer = [code |-> 200, body |-> <<>>])
    /\ [][~Answered("delete_all_users")'
              => /\ Len(users') >= Len(users)
                 /\ \A i \in 1..Len(users) : users'[i] = users[i]]_vars

\* the table was emptied while an import run that had stored a row was under way
C16_Witness ==
    /\ Answered("delete_all_users")
    /\ users = <<>>
    /\ \E r \in 1..Len(runs) : IsImport(r) /\ runs[r].pc = "rows" /\ runs[r].processed >= 1

\* the email a POST /user/ of the body would store
PostedEmail(body) == UserDataCreate(body).v.email

Stored(email) == \E i \in 1..Len(users) : users[i].email = email

\* the run r is at a row of the sheet that passes the conversions
AtRow(r) ==
    /\ IsImport(r) /\ runs[r].pc = "rows"
    /\ ~ProcessRaises(runs[r].sheet_data[runs[r].i])

\* C17: no two stored user rows share an email; a POST /user/ whose email is stored
\* is answered 500 and leaves the table as it was, any other is answered 200 and
\* stored; a step of an import run at a row whose email is stored records a row
\* error and stores nothing
C17_EmailUnique ==
    /\ [](\A i, j \in 1..Len(users) : users[i].email = users[j].email => i = j)
    /\ [][Answered("create_user_data")' /\ ~Answered("create_user_data")
              => IF Stored(PostedEmail(response'.request))
                 THEN response'.answer.code = 500 /\ users' = users
                 ELSE /\ response'.answer.code = 200
                      /\ Len(users') = Len(users) + 1
                      /\ users'[Len(users')].email = PostedEmail(response'.request)]_vars
    /\ [][\A r \in 1..Len(runs) :
              /\ AtRow(r)
              /\ Stored(ImportedUser(runs[r].sheet_data[runs[r].i]).email)
              /\ runs'[r].i = runs[r].i + 1
              => /\ users' = users
                 /\ Len(runs'[r].errors) = Len(runs[r].errors) + 1
                 /\ runs'[r].processed = runs[r].processed]_vars

\* a POST /user/ was refused for its email while an import run had its second row
\* refused for the email of its first
C17_Witness ==
    /\ Answered("create_user_data")
    /\ response.answer.code = 500
    /\ Len(users) = 2
    /\ \E r \in 1..Len(runs) :
          IsImport(r) /\ runs[r].processed = 1 /\ Len(runs[r].errors) = 1

\* C18: GET /sync/status answers with the status, type, start time, end time and
\* error detail of the log row started most recently, the row opened last, whichever
\* operation opened it, and with status 'no_sync' when there is no row
C18_StatusOfLatestStarted ==
    Answered("get_sync_status")
        => /\ response.answer.code = 200
           /\ IF logs = <<>>
              THEN response.answer.body.status = "no_sync"
              ELSE LET last == logs[Len(logs)]
                   IN  /\ DOMAIN response.answer.body
                              = {"status", "last_sync_type", "start_time", "end_time",
                                 "error_message"}
                       /\ response.answer.body.status = last.sync_status
                       /\ response.answer.body.last_sync_type = last.assessment_type
                       /\ response.answer.body.start_time = IsoFormat(last.sync_start_time)
                       /\ response.answer.body.end_time = IsoFormat(last.sync_end_time)
                       /\ response.answer.body.error_message = last.sync_error_message

\* the run r was started in the background (an export or a bidirectional run), the
\* gateway failed during it, the run is over and no run was started after it
FailedBackgroundRun(r) ==
    /\ r = Len(runs)
    /\ runs[r].kind \in {"db_to_sheets_sync", "synchronization"}
    /\ runs[r].pc = "done"
    /\ \E c \in 1..Len(runs[r].calls) : runs[r].calls[c][2] # "ok"

\* C11: once a background run during which the gateway failed is over and no later
\* run has started, GET /sync/status answers with status failure and a non-empty
\* error message
C11_FailedRunReportedAsFailure ==
    \A r \in 1..Len(runs) :
        Answered("get_sync_status") /\ FailedBackgroundRun(r)
            => /\ response.answer.body.status = "failure"
               /\ response.answer.body.error_message.t = "str"
               /\ response.answer.body.error_message.v # ""

(***************************************************************************)
(* Export runs side by side, under SpecWorkers.                            *)
(***************************************************************************)
\* the export run q has written the range j
HasWritten(q, j) ==
    \E c \in 1..Len(runs[q].results) : runs[q].results[c] = <<RangeOrder[j], "success">>

\* the export run q makes no further call on the range j
PastRange(q, j) ==
    \/ runs[q].pc \in {"close", "close_failure", "done", "retired"}
    \/ runs[q].pc \in {"clear", "write"} /\ runs[q].k > j

\* the step is the export run r's successful write of the range j, the last write
\* of the range by the runs under way: another export run that has not yet been
\* forgotten has written the range, and no other export run has a call on it to come
LastWrite(r, j) ==
    /\ IsExport(r) /\ runs[r].pc = "write" /\ runs[r].k = j
    /\ runs'[r].calls = Append(runs[r].calls, <<"update", "ok">>)
    /\ \E q \in 1..Len(runs) : q # r /\ IsExport(q) /\ HasWritten(q, j)
    /\ \A q \in 1..Len(runs) :
          q # r /\ runs[q].kind = "db_to_sheets_sync" => PastRange(q, j)

\* C21: when two export runs overlap, their clears and writes of a range interleaved
\* in any order and their snapshots possibly different, the range holds after the last
\* of their writes, and so when both have finished, exactly the rows the run of that
\* last write wrote: never rows of both
C21_LastWriteWins ==
    [][\A r \in 1..Len(runs) : \A j \in 1..3 :
          LastWrite(r, j) => sheet'[RangeOrder[j]] = runs[r].db_data[RangeOrder[j]]]_vars
====
